---- MODULE Spec2Model ----
(***************************************************************************)
(* A model of WebVfx::EffectsImpl (src/webvfx/effects_impl.cpp): the       *)
(* object that lets worker threads drive a Content (WebContent or          *)
(* QmlContent) that lives on the Qt GUI thread.                            *)
(*                                                                         *)
(* Threads: Owner is the GUI thread, which runs the only event loop;       *)
(* Callers are worker threads without an event loop.  A pointer to a       *)
(* caller's stack QMutex / QWaitCondition is the caller's thread id, and   *)
(* 0 is the null pointer.                                                  *)
(***************************************************************************)
EXTENDS Integers, Sequences, FiniteSets, TLC

\* ------------------------------------------------------------------ bounds
\* Public calls the environment makes in one behaviour.
MaxCalls == 2

\* ----------------------------------------------------------------- threads
Owner == 0
Callers == {1, 2}
Threads == {Owner} \cup Callers
NULL == 0
NoThread == -1
Bridges == {1, 2}

\* ------------------------------------------------------- resource locators
\* A file name is the sequence of its scheme tokens (outermost first), its
\* path (a sequence of characters) and whether the file system resolves it
\* to a valid local URL.
Lower(c) ==
  CASE c = "H" -> "h" [] c = "T" -> "t" [] c = "M" -> "m" [] c = "L" -> "l"
    [] c = "Q" -> "q" [] c = "X" -> "x" [] OTHER -> c

\* QString::endsWith(suffix, Qt::CaseInsensitive)
EndsWithCI(path, suffix) ==
  /\ Len(path) >= Len(suffix)
  /\ \A i \in 1..Len(suffix) :
       Lower(path[Len(path) - Len(suffix) + i]) = Lower(suffix[i])

\* QUrl::scheme()
Scheme(url) == IF url.schemes = <<>> THEN "" ELSE Head(url.schemes)

\* QUrl(url.toString(QUrl::RemoveScheme))
RemoveScheme(url) == [url EXCEPT !.schemes = Tail(url.schemes)]

\* QUrl::fromLocalFile(QFileInfo(...).absoluteFilePath())
FromLocalFile(url) == [url EXCEPT !.schemes = <<"file">>]

\* QUrl::isLocalFile()
IsLocalFile(url) == Scheme(url) = "file"

\* initialize, lines 44-58: the locator, the plain flag, and whether the
\* call goes on (FALSE: "Invalid URL", initialize returns false).
IsPlain(fileName) == Scheme(fileName) = "plain"

Resolve(fileName) ==
  LET url0 == IF IsPlain(fileName) THEN RemoveScheme(fileName) ELSE fileName
      local == Len(Scheme(url0)) < 2
      url == IF local THEN FromLocalFile(url0) ELSE url0
  IN [url |-> url, isPlain |-> IsPlain(fileName),
      ok |-> (local => url.valid)]

\* A variant selection that looks at the .qml suffix before it looks at
\* whether the locator is a local file.
SelectVariantSuffixFirst(url) ==
  IF EndsWithCI(url.path, <<".", "q", "m", "l">>) THEN "qml"
  ELSE IF \/ EndsWithCI(url.path, <<".", "h", "t", "m", "l">>)
          \/ EndsWithCI(url.path, <<".", "h", "t", "m">>)
          \/ ~IsLocalFile(url)
  THEN "web"
  ELSE "none"

\* initializeInvokable, lines 174-200: the Content variant, "none" when the
\* suffix is not supported.
SelectVariant(url) ==
  IF \/ EndsWithCI(url.path, <<".", "h", "t", "m", "l">>)
     \/ EndsWithCI(url.path, <<".", "h", "t", "m">>)
     \/ ~IsLocalFile(url)
  THEN "web"
  ELSE IF EndsWithCI(url.path, <<".", "q", "m", "l">>) THEN "qml"
  ELSE "none"

\* initializeInvokable, lines 180-185 and 190-195: the signal connected to
\* initializeComplete.
ConnectedSignal(isPlain) == IF isPlain THEN "pre" ELSE "full"

\* The isTransparent the environment passes with a file name.
Transparent(f) == f.schemes = <<>>

\* The file names the environment passes to initialize.
FileNames ==
  { [schemes |-> <<>>, path |-> <<"a", ".", "h", "t", "m", "l">>, valid |-> TRUE],
    [schemes |-> <<"plain">>, path |-> <<"s", ".", "Q", "M", "L">>, valid |-> TRUE],
    [schemes |-> <<>>, path |-> <<"n", ".", "t", "x", "t">>, valid |-> TRUE],
    [schemes |-> <<"c">>, path |-> <<"a", ".", "h", "t", "m">>, valid |-> FALSE] }

\* The file names of the locator cases: each supported suffix in lower,
\* upper and mixed case, locators that are not local files with and without
\* a suffix, plain-mode names, and unsupported names.
Locators ==
  { [schemes |-> <<>>, path |-> <<"a", ".", "h", "t", "m", "l">>, valid |-> TRUE],
    [schemes |-> <<>>, path |-> <<"b", ".", "H", "T", "M">>, valid |-> TRUE],
    [schemes |-> <<>>, path |-> <<"s", ".", "q", "m", "l">>, valid |-> TRUE],
    [schemes |-> <<"plain">>, path |-> <<"s", ".", "Q", "m", "L">>, valid |-> TRUE],
    [schemes |-> <<"http">>, path |-> <<"p", ".", "q", "m", "l">>, valid |-> TRUE],
    [schemes |-> <<"http">>, path |-> <<"p">>, valid |-> TRUE],
    [schemes |-> <<"plain", "http">>, path |-> <<"x", ".", "t", "x", "t">>, valid |-> TRUE],
    [schemes |-> <<>>, path |-> <<"n", ".", "t", "x", "t">>, valid |-> TRUE],
    [schemes |-> <<>>, path |-> <<"q", "m", "l">>, valid |-> TRUE],
    [schemes |-> <<"c">>, path |-> <<"a", ".", "h", "t", "m">>, valid |-> FALSE] }

\* ------------------------------------------------------------------- state
VARIABLES
  content,           \* [Bridges -> 0..]: EffectsImpl::content, an index into handles, 0 is null
  handles,           \* [Bridges -> Seq(handle)]: the Content objects created for the bridge
  mutex,             \* [Bridges -> {NULL} \cup Callers]: EffectsImpl::mutex
  waitCondition,     \* [Bridges -> {NULL} \cup Callers]: EffectsImpl::waitCondition
  initializeResult,  \* [Bridges -> BOOLEAN]
  renderResult,      \* [Bridges -> BOOLEAN]
  affinity,          \* [Bridges -> Threads]: the QObject's thread
  deleted,           \* [Bridges -> BOOLEAN]: ~EffectsImpl has run
  destroyed,         \* [Bridges -> BOOLEAN]: destroy() has been called
  queue,             \* [Threads -> Seq(event)]: each thread's posted events
  pc,                \* [Callers -> STRING]: the caller's position in its call
  call,              \* [Callers -> record]: the caller's current call
  held,              \* [Callers -> Threads \cup {NoThread}]: who holds the caller's stack QMutex
  opc,               \* the owner thread's position
  octx,              \* the owner thread's current completion: bridge, result, lock held, caller
  ret,               \* the last return of a public call: thread, call, value, what the Content produced
  offThread,         \* the Content methods invoked so far on a thread other than Owner
  nullCall,          \* the public operations that invoked a Content method through a null content
  disposedOn,        \* [Bridges -> STRING]: where the bridge was deleted
  crashed,           \* undefined behaviour ended the process
  ncalls,            \* public calls made so far
  limit,             \* public calls the environment makes at most
  active,            \* the bridges the environment drives
  produced           \* [Callers -> STRING]: what the Content produced for the caller's call

vars == << content, handles, mutex, waitCondition, initializeResult,
           renderResult, affinity, deleted, destroyed, queue, pc, call, held,
           opc, octx, ret, offThread, nullCall, disposedOn, crashed, ncalls,
           limit, active, produced >>

NoCall == [op |-> "none", b |-> 0, arg |-> <<>>, after |-> {}]
NoRet == [t |-> NoThread, op |-> "none", b |-> 0, val |-> FALSE,
          produced |-> "none"]
NoCtx == [b |-> 0, kind |-> "none", result |-> FALSE, locked |-> NULL,
          by |-> NoThread, inplace |-> FALSE]

\* EffectsImpl::EffectsImpl, lines 22-30, for every bridge; the environment
\* is idle.
InitBridge ==
  /\ content = [b \in Bridges |-> NULL]
  /\ handles = [b \in Bridges |-> <<>>]
  /\ mutex = [b \in Bridges |-> NULL]
  /\ waitCondition = [b \in Bridges |-> NULL]
  /\ initializeResult = [b \in Bridges |-> FALSE]
  /\ renderResult = [b \in Bridges |-> FALSE]
  /\ deleted = [b \in Bridges |-> FALSE]
  /\ destroyed = [b \in Bridges |-> FALSE]
  /\ queue = [t \in Threads |-> <<>>]
  /\ pc = [t \in Callers |-> "idle"]
  /\ call = [t \in Callers |-> NoCall]
  /\ held = [t \in Callers |-> NoThread]
  /\ opc = "loop"
  /\ octx = NoCtx
  /\ ret = NoRet
  /\ offThread = {}
  /\ nullCall = {}
  /\ disposedOn = [b \in Bridges |-> "nowhere"]
  /\ crashed = FALSE
  /\ ncalls = 0
  /\ produced = [t \in Callers |-> "none"]

\* One bridge, constructed on caller thread 1.
Init ==
  /\ InitBridge
  /\ limit = MaxCalls
  /\ active = {1}
  /\ affinity = [b \in Bridges |-> 1]

\* The file name and the Content of a bridge that caller 1 has initialized.
ReadyFile ==
  [schemes |-> <<>>, path |-> <<"a", ".", "h", "t", "m", "l">>, valid |-> TRUE]

ReadyHandle ==
  [variant |-> "web", transparent |-> TRUE, conn |-> "full", pre |-> 0,
   full |-> 0, alive |-> TRUE, by |-> 1]

\* The state of bridge 1 once initialize(ReadyFile), called by caller 1, has
\* returned true and the load has fired both its events.
Ready ==
  /\ content[1] = 1 /\ handles[1] = << ReadyHandle >>
  /\ mutex[1] = NULL /\ waitCondition[1] = NULL
  /\ initializeResult[1] /\ ~renderResult[1]
  /\ affinity[1] = Owner /\ ~deleted[1] /\ ~destroyed[1]
  /\ queue = [t \in Threads |-> <<>>]
  /\ pc = [t \in Callers |-> "idle"] /\ call = [t \in Callers |-> NoCall]
  /\ held = [t \in Callers |-> NoThread]
  /\ opc = "loop" /\ octx = NoCtx
  /\ ret = [t |-> 1, op |-> "initialize", b |-> 1, val |-> TRUE,
            produced |-> "true"]
  /\ offThread = {} /\ nullCall = {} /\ ~crashed
  /\ produced = [t \in Callers |-> IF t = 1 THEN "true" ELSE "none"]

\* The bridge is Ready and the environment has MaxCalls calls to make.
InitReady ==
  /\ content = [b \in Bridges |-> IF b = 1 THEN 1 ELSE NULL]
  /\ handles = [b \in Bridges |-> IF b = 1 THEN << ReadyHandle >> ELSE <<>>]
  /\ mutex = [b \in Bridges |-> NULL]
  /\ waitCondition = [b \in Bridges |-> NULL]
  /\ initializeResult = [b \in Bridges |-> b = 1]
  /\ renderResult = [b \in Bridges |-> FALSE]
  /\ affinity = [b \in Bridges |-> IF b = 1 THEN Owner ELSE 1]
  /\ deleted = [b \in Bridges |-> FALSE]
  /\ destroyed = [b \in Bridges |-> FALSE]
  /\ disposedOn = [b \in Bridges |-> "nowhere"]
  /\ ncalls = 0
  /\ limit = MaxCalls
  /\ active = {1}
  /\ queue = [t \in Threads |-> <<>>]
  /\ pc = [t \in Callers |-> "idle"]
  /\ call = [t \in Callers |-> NoCall]
  /\ held = [t \in Callers |-> NoThread]
  /\ opc = "loop"
  /\ octx = NoCtx
  /\ ret = [t |-> 1, op |-> "initialize", b |-> 1, val |-> TRUE,
            produced |-> "true"]
  /\ offThread = {}
  /\ nullCall = {}
  /\ crashed = FALSE
  /\ produced = [t \in Callers |-> IF t = 1 THEN "true" ELSE "none"]
  /\ Ready

\* Two bridges, each Ready after an initialize(ReadyFile) by the caller of
\* the same number, live on the owner thread.
InitTwo ==
  /\ content = [b \in Bridges |-> 1]
  /\ handles = [b \in Bridges |-> << [ReadyHandle EXCEPT !.by = b] >>]
  /\ mutex = [b \in Bridges |-> NULL]
  /\ waitCondition = [b \in Bridges |-> NULL]
  /\ initializeResult = [b \in Bridges |-> TRUE]
  /\ renderResult = [b \in Bridges |-> FALSE]
  /\ affinity = [b \in Bridges |-> Owner]
  /\ deleted = [b \in Bridges |-> FALSE]
  /\ destroyed = [b \in Bridges |-> FALSE]
  /\ disposedOn = [b \in Bridges |-> "nowhere"]
  /\ ncalls = 0
  /\ limit = MaxCalls
  /\ active = Bridges
  /\ queue = [t \in Threads |-> <<>>]
  /\ pc = [t \in Callers |-> "idle"]
  /\ call = [t \in Callers |-> NoCall]
  /\ held = [t \in Callers |-> NoThread]
  /\ opc = "loop"
  /\ octx = NoCtx
  /\ ret = NoRet
  /\ offThread = {}
  /\ nullCall = {}
  /\ crashed = FALSE
  /\ produced = [t \in Callers |-> "none"]

\* ------------------------------------------------------------ helpers
Str(v) == IF v THEN "true" ELSE "false"

\* The posted events of bridge b are taken out of a queue / kept in it.
EventsOf(q, b) == SelectSeq(q, LAMBDA e : e.b = b)
EventsNotOf(q, b) == SelectSeq(q, LAMBDA e : e.b # b)

\* QMetaObject::invokeMethod(this, member, Qt::QueuedConnection, ...): the
\* event is posted to the queue of the thread the object lives in.
Posted(q, b, member, by, arg) ==
  [q EXCEPT ![affinity[b]] =
     Append(@, [op |-> member, b |-> b, by |-> by, arg |-> arg])]

\* QObject::moveToThread(QApplication::instance()->thread()) called on
\* thread t: the object and its posted events move to the owner thread when
\* t is the thread the object lives in; otherwise Qt leaves it where it is.
MovedAffinity(t, b) == IF affinity[b] = t THEN Owner ELSE affinity[b]

MovedQueue(t, b) ==
  IF affinity[b] = t /\ t # Owner
  THEN [queue EXCEPT ![Owner] = @ \o EventsOf(queue[t], b),
                     ![t] = EventsNotOf(@, b)]
  ELSE queue

\* onUIThread, lines 97-99
onUIThread(t) == t = Owner

Running == ~crashed

\* The environment starts a public call on a bridge it has not destroyed.
CanCall(b) == Running /\ ncalls < limit /\ b \in active /\ ~destroyed[b]

\* The environment initializes a bridge that has no initialize in flight.
CanInitialize(b) ==
  \A u \in Callers : ~(call[u].op = "initialize" /\ call[u].b = b)

\* Undefined behaviour that ends the process; ops: the operation, if any,
\* that called through a null content.
Crash(ops) ==
  /\ crashed' = TRUE
  /\ nullCall' = nullCall \cup ops
  /\ UNCHANGED << content, handles, mutex, waitCondition, initializeResult,
                  renderResult, affinity, deleted, destroyed, queue, pc, call,
                  held, opc, octx, ret, offThread, disposedOn, ncalls, limit,
                  active, produced >>

\* --------------------------------------------------- calls of a caller thread
\* initialize, lines 37-60, on a caller thread: the thread check and the
\* locator; an invalid locator returns false at once.
StartInitialize(t, b, fileName, isTransparent) ==
  /\ CanCall(b) /\ CanInitialize(b) /\ pc[t] = "idle" /\ ~onUIThread(t)
  /\ ncalls' = ncalls + 1
  /\ produced' = [produced EXCEPT ![t] = "none"]
  /\ LET r == Resolve(fileName) IN
       IF r.ok
       THEN /\ pc' = [pc EXCEPT ![t] = "set_mutex"]
            /\ call' = [call EXCEPT ![t] =
                 [op |-> "initialize", b |-> b,
                  arg |-> [url |-> r.url, isPlain |-> r.isPlain,
                           isTransparent |-> isTransparent],
                  after |-> {}]]
            /\ ret' = ret
       ELSE /\ ret' = [t |-> t, op |-> "initialize", b |-> b, val |-> FALSE,
                    produced |-> "none"]
            /\ UNCHANGED << pc, call >>
  /\ UNCHANGED << content, handles, mutex, waitCondition, initializeResult,
                  renderResult, affinity, deleted, destroyed, queue, held,
                  opc, octx, offThread, nullCall, disposedOn, crashed, limit,
                  active >>

\* render, lines 114-121, and reload, lines 148-155, on a caller thread.
StartMarshaled(t, b, op) ==
  /\ CanCall(b) /\ pc[t] = "idle" /\ ~onUIThread(t)
  /\ ncalls' = ncalls + 1
  /\ produced' = [produced EXCEPT ![t] = "none"]
  /\ pc' = [pc EXCEPT ![t] = "set_mutex"]
  /\ call' = [call EXCEPT ![t] =
       [op |-> op, b |-> b, arg |-> <<>>, after |-> {}]]
  /\ UNCHANGED << content, handles, mutex, waitCondition, initializeResult,
                  renderResult, affinity, deleted, destroyed, queue, held,
                  opc, octx, ret, offThread, nullCall, disposedOn, crashed,
                  limit, active >>

\* this->mutex = &mutex, lines 64, 122, 156
SetMutex(t) ==
  /\ Running /\ pc[t] = "set_mutex"
  /\ mutex' = [mutex EXCEPT ![call[t].b] = t]
  /\ pc' = [pc EXCEPT ![t] = "set_cond"]
  /\ UNCHANGED << content, handles, waitCondition, initializeResult,
                  renderResult, affinity, deleted, destroyed, queue, call,
                  held, opc, octx, ret, offThread, nullCall, disposedOn,
                  crashed, ncalls, limit, active, produced >>

\* A waitCondition field that all bridges share (a static member).
SetCondShared(t) ==
  /\ Running /\ pc[t] = "set_cond"
  /\ waitCondition' = [b \in Bridges |-> t]
  /\ pc' = [pc EXCEPT ![t] =
       IF call[t].op = "initialize" THEN "move" ELSE "post"]
  /\ UNCHANGED << content, handles, mutex, initializeResult, renderResult,
                  affinity, deleted, destroyed, queue, call, held, opc, octx,
                  ret, offThread, nullCall, disposedOn, crashed, ncalls,
                  limit, active, produced >>

\* this->waitCondition = &waitCondition, lines 65, 123, 157
SetCond(t) ==
  /\ Running /\ pc[t] = "set_cond"
  /\ waitCondition' = [waitCondition EXCEPT ![call[t].b] = t]
  /\ pc' = [pc EXCEPT ![t] =
       IF call[t].op = "initialize" THEN "move" ELSE "post"]
  /\ UNCHANGED << content, handles, mutex, initializeResult, renderResult,
                  affinity, deleted, destroyed, queue, call, held, opc, octx,
                  ret, offThread, nullCall, disposedOn, crashed, ncalls,
                  limit, active, produced >>

\* A caller that posts and waits without taking its mutex first.
NotLocked(t) == held

\* QMutexLocker locker(&mutex), lines 67, 125, 159: the caller takes its
\* own stack mutex, which the owner thread may hold (CompleteLock).
Locked(t) == [held EXCEPT ![t] = t]

\* QMutexLocker locker(&mutex) and this->moveToThread(...), lines 67-70
MoveToThread(t) ==
  /\ Running /\ pc[t] = "move"
  /\ held[t] = NoThread
  /\ held' = Locked(t)
  /\ affinity' = [affinity EXCEPT ![call[t].b] = MovedAffinity(t, call[t].b)]
  /\ queue' = MovedQueue(t, call[t].b)
  /\ pc' = [pc EXCEPT ![t] = "post"]
  /\ UNCHANGED << content, handles, mutex, waitCondition, initializeResult,
                  renderResult, deleted, destroyed, call, opc, octx,
                  ret, offThread, nullCall, disposedOn, crashed, ncalls,
                  limit, active, produced >>

\* The member a public call posts.
Invokable(op) ==
  CASE op = "initialize" -> "initializeInvokable"
    [] op = "render" -> "renderInvokable"
    [] OTHER -> "reloadInvokable"

\* The callers whose operation on bridge b is posted and who have not
\* returned: the calls admitted before the one being posted now.
Admitted(b) ==
  {u \in Callers : call[u].b = b /\ pc[u] \notin {"idle", "set_mutex",
                                                   "set_cond", "move", "post"}}

\* QMetaObject::invokeMethod(..., Qt::QueuedConnection, ...), lines 71-76,
\* 126-129, 160; render and reload take the stack mutex right before it,
\* lines 125, 159.  call[t].after records the calls posted earlier.
Post(t) ==
  /\ Running /\ pc[t] = "post"
  /\ held[t] \in {NoThread, t}
  /\ held' = Locked(t)
  /\ queue' = Posted(queue, call[t].b, Invokable(call[t].op), t, call[t].arg)
  /\ pc' = [pc EXCEPT ![t] = "wait"]
  /\ call' = [call EXCEPT ![t].after = Admitted(call[t].b)]
  /\ UNCHANGED << content, handles, mutex, waitCondition, initializeResult,
                  renderResult, affinity, deleted, destroyed, opc,
                  octx, ret, offThread, nullCall, disposedOn, crashed, ncalls,
                  limit, active, produced >>

\* A wait that sleeps without releasing the mutex.
WaitHolding(t) ==
  /\ Running /\ pc[t] = "wait"
  /\ pc' = [pc EXCEPT ![t] = "waiting"]
  /\ UNCHANGED << content, handles, mutex, waitCondition, initializeResult,
                  renderResult, affinity, deleted, destroyed, queue, call,
                  held, opc, octx, ret, offThread, nullCall, disposedOn,
                  crashed, ncalls, limit, active, produced >>

\* waitCondition.wait(&mutex), lines 78, 131, 162: the mutex is released and
\* the thread sleeps, atomically.
Wait(t) ==
  /\ Running /\ pc[t] = "wait"
  /\ held' = [held EXCEPT ![t] = NoThread]
  /\ pc' = [pc EXCEPT ![t] = "waiting"]
  /\ UNCHANGED << content, handles, mutex, waitCondition, initializeResult,
                  renderResult, affinity, deleted, destroyed, queue, call,
                  opc, octx, ret, offThread, nullCall, disposedOn, crashed,
                  ncalls, limit, active, produced >>

\* The woken thread takes its mutex again to leave wait, and the locker's
\* scope ends, lines 78-79, 131-132, 162-163.
Reacquire(t) ==
  /\ Running /\ pc[t] = "woken"
  /\ held[t] = NoThread
  /\ pc' = [pc EXCEPT ![t] = "clr_mutex"]
  /\ UNCHANGED << content, handles, mutex, waitCondition, initializeResult,
                  renderResult, affinity, deleted, destroyed, queue, call,
                  held, opc, octx, ret, offThread, nullCall, disposedOn,
                  crashed, ncalls, limit, active, produced >>

\* this->mutex = 0, lines 80, 133, 164
ClrMutex(t) ==
  /\ Running /\ pc[t] = "clr_mutex"
  /\ mutex' = [mutex EXCEPT ![call[t].b] = NULL]
  /\ pc' = [pc EXCEPT ![t] = "clr_cond"]
  /\ UNCHANGED << content, handles, waitCondition, initializeResult,
                  renderResult, affinity, deleted, destroyed, queue, call,
                  held, opc, octx, ret, offThread, nullCall, disposedOn,
                  crashed, ncalls, limit, active, produced >>

\* this->waitCondition = 0, lines 81, 134, 165
ClrCond(t) ==
  /\ Running /\ pc[t] = "clr_cond"
  /\ waitCondition' = [waitCondition EXCEPT ![call[t].b] = NULL]
  /\ pc' = [pc EXCEPT ![t] = "return"]
  /\ UNCHANGED << content, handles, mutex, initializeResult, renderResult,
                  affinity, deleted, destroyed, queue, call, held, opc, octx,
                  ret, offThread, nullCall, disposedOn, crashed, ncalls,
                  limit, active, produced >>

\* The value a public call returns, lines 82, 136 (reload returns nothing).
Returned(op, b) ==
  CASE op = "initialize" -> initializeResult[b]
    [] op = "render" -> renderResult[b]
    [] OTHER -> FALSE

\* return initializeResult / renderResult, lines 82, 136, 167
Return(t) ==
  /\ Running /\ pc[t] = "return"
  /\ ret' = [t |-> t, op |-> call[t].op, b |-> call[t].b,
             val |-> Returned(call[t].op, call[t].b), produced |-> produced[t]]
  /\ pc' = [pc EXCEPT ![t] = "idle"]
  /\ call' = [u \in Callers |->
       IF u = t THEN NoCall ELSE [call[u] EXCEPT !.after = @ \ {t}]]
  /\ UNCHANGED << content, handles, mutex, waitCondition, initializeResult,
                  renderResult, affinity, deleted, destroyed, queue, held,
                  opc, octx, offThread, nullCall, disposedOn, crashed, ncalls,
                  limit, active, produced >>

\* A caller's call goes on inside an object that ~EffectsImpl has freed
\* (lines 80-82, 133-136, 164-165 after a destroy): undefined behaviour,
\* which may end the process or go on as if the memory were still there.
UseAfterFree(t) ==
  /\ Running /\ pc[t] \in {"clr_mutex", "clr_cond", "return"}
  /\ deleted[call[t].b]
  /\ Crash({})

\* The caller's stack QMutex is destroyed at the end of the call while the
\* owner thread holds it: undefined behaviour.
DestroyLockedMutex(t) ==
  /\ Running /\ pc[t] = "return" /\ held[t] # NoThread
  /\ Crash({})

\* ------------------------------------------------------- the owner thread
\* content->method(...) of operation op: a call through a null pointer when
\* the bridge holds no Content.
ThroughNull(b, op) ==
  IF content[b] = NULL THEN nullCall \cup {op} ELSE nullCall

ThreadIdle(t) == IF t = Owner THEN opc = "loop" ELSE pc[t] = "idle"

\* A new Content: its variant, the signal connected to initializeComplete,
\* and the completion events its load has still to fire.
NewHandle(variant, arg, by) ==
  [variant |-> variant,
   transparent |-> (variant = "web" /\ arg.isTransparent),
   conn |-> ConnectedSignal(arg.isPlain),
   pre |-> 1, full |-> 1, alive |-> TRUE, by |-> by]

\* Content::loadContent / Content::reload start a load, which fires each of
\* the two completion events at most once.
Loading(h) == [h EXCEPT !.pre = @ + 1, !.full = @ + 1]

\* initializeInvokable, lines 169-203, run by the owner's event loop.
DispatchInitialize ==
  /\ Running /\ opc = "loop" /\ queue[Owner] # <<>>
  /\ Head(queue[Owner]).op = "initializeInvokable"
  /\ LET e == Head(queue[Owner])
         v == SelectVariant(e.arg.url)
     IN /\ queue' = [queue EXCEPT ![Owner] = Tail(@)]
        /\ IF v = "none"
           THEN UNCHANGED << content, handles >>
           ELSE /\ handles' = [handles EXCEPT ![e.b] =
                     Append(@, NewHandle(v, e.arg, e.by))]
                /\ content' = [content EXCEPT ![e.b] = Len(handles[e.b]) + 1]
  /\ UNCHANGED << mutex, waitCondition, initializeResult, renderResult,
                  affinity, deleted, destroyed, pc, call, held, opc, octx,
                  ret, offThread, nullCall, disposedOn, crashed, ncalls,
                  limit, active, produced >>

\* renderComplete, lines 139-141: the test of the two fields; the owner
\* goes on to lock when both are set.
RenderCompletes(b) == mutex[b] # NULL /\ waitCondition[b] # NULL

\* renderInvokable, lines 205-209, and the test of renderComplete, for the
\* thread by; r is what renderContent returns (any value when content is
\* null and the process goes on).
RenderInvokable(b, by, inplace, r) ==
  /\ nullCall' = ThroughNull(b, "render")
  /\ produced' = IF by \in Callers THEN [produced EXCEPT ![by] = Str(r)]
                 ELSE produced
  /\ IF RenderCompletes(b)
     THEN /\ opc' = "rc_lock"
          /\ octx' = [b |-> b, kind |-> "render", result |-> r,
                      locked |-> NULL, by |-> by, inplace |-> inplace]
          /\ ret' = ret
     ELSE /\ UNCHANGED << opc, octx >>
          /\ ret' = IF inplace
                    THEN [t |-> Owner, op |-> "render", b |-> b,
                          val |-> renderResult[b], produced |-> Str(r)]
                    ELSE ret

DispatchRender ==
  /\ Running /\ opc = "loop" /\ queue[Owner] # <<>>
  /\ Head(queue[Owner]).op = "renderInvokable"
  /\ LET e == Head(queue[Owner]) IN
       \/ /\ \E r \in BOOLEAN : RenderInvokable(e.b, e.by, FALSE, r)
          /\ queue' = [queue EXCEPT ![Owner] = Tail(@)]
          /\ UNCHANGED << content, handles, mutex, waitCondition,
                          initializeResult, renderResult, affinity, deleted,
                          destroyed, pc, call, held, offThread, disposedOn,
                          crashed, ncalls, limit, active >>
       \/ /\ content[e.b] = NULL
          /\ Crash({"render"})

\* reloadInvokable, lines 211-214
ReloadInvokable(b) ==
  /\ nullCall' = ThroughNull(b, "reload")
  /\ handles' = IF content[b] = NULL THEN handles
                ELSE [handles EXCEPT ![b][content[b]] = Loading(@)]

DispatchReload ==
  /\ Running /\ opc = "loop" /\ queue[Owner] # <<>>
  /\ Head(queue[Owner]).op = "reloadInvokable"
  /\ LET e == Head(queue[Owner]) IN
       \/ /\ ReloadInvokable(e.b)
          /\ queue' = [queue EXCEPT ![Owner] = Tail(@)]
          /\ produced' = [produced EXCEPT ![e.by] = "reloaded"]
          /\ UNCHANGED << content, mutex, waitCondition, initializeResult,
                          renderResult, affinity, deleted, destroyed, pc,
                          call, held, opc, octx, ret, offThread, disposedOn,
                          crashed, ncalls, limit, active >>
       \/ /\ content[e.b] = NULL
          /\ Crash({"reload"})

\* ~EffectsImpl, lines 32-35: delete content disposes the Content the field
\* points to; the Contents of earlier initialize calls are left alive, and
\* ~QObject cuts every connection to initializeComplete.
Disposed(hs, c) ==
  [i \in DOMAIN hs |->
     IF i = c THEN [hs[i] EXCEPT !.alive = FALSE, !.conn = "none",
                                 !.pre = 0, !.full = 0]
     ELSE [hs[i] EXCEPT !.conn = "none"]]

\* The deferred delete posted by deleteLater (line 94) reaches the owner's
\* loop: ~EffectsImpl runs, and ~QObject removes the object's posted events.

DispatchDelete ==
  /\ Running /\ opc = "loop" /\ queue[Owner] # <<>>
  /\ Head(queue[Owner]).op = "deferredDelete"
  /\ LET b == Head(queue[Owner]).b IN
       /\ deleted' = [deleted EXCEPT ![b] = TRUE]
       /\ disposedOn' = [disposedOn EXCEPT ![b] = "owner loop"]
       /\ handles' = [handles EXCEPT ![b] = Disposed(@, content[b])]
       /\ queue' = [t \in Threads |-> EventsNotOf(queue[t], b)]
  /\ UNCHANGED << content, mutex, waitCondition, initializeResult,
                  renderResult, affinity, destroyed, pc, call, held, opc,
                  octx, ret, offThread, nullCall, crashed, ncalls, limit,
                  active, produced >>

\* A Content fires contentPreLoadFinished(res) / contentLoadFinished(res) on
\* the owner thread; the connected one calls initializeComplete(res), line 85.
Fire(b, i, kind, res) ==
  /\ Running /\ opc = "loop" /\ b \in active
  /\ i \in DOMAIN handles[b] /\ handles[b][i].alive
  /\ IF kind = "pre" THEN handles[b][i].pre > 0 ELSE handles[b][i].full > 0
  /\ handles' = [handles EXCEPT ![b][i] =
       IF kind = "pre" THEN [@ EXCEPT !.pre = @ - 1]
                       ELSE [@ EXCEPT !.full = @ - 1]]
  /\ LET h == handles[b][i] IN
       IF h.conn = kind
       THEN /\ opc' = "ic_lock"
            /\ octx' = [b |-> b, kind |-> kind, result |-> res,
                        locked |-> NULL, by |-> h.by, inplace |-> FALSE]
            /\ produced' =
                 IF /\ h.by \in Callers
                    /\ call[h.by].op = "initialize" /\ call[h.by].b = b
                 THEN [produced EXCEPT ![h.by] = Str(res)]
                 ELSE produced
       ELSE UNCHANGED << opc, octx, produced >>
  /\ UNCHANGED << content, mutex, waitCondition, initializeResult,
                  renderResult, affinity, deleted, destroyed, queue, pc, call,
                  held, ret, offThread, nullCall, disposedOn, crashed, ncalls,
                  limit, active >>

\* QMutexLocker locker(mutex), lines 87 and 142: the field is read again; a
\* null mutex is not locked.
CompleteLock ==
  /\ Running /\ opc \in {"rc_lock", "ic_lock"}
  /\ LET m == mutex[octx.b] IN
       /\ m # NULL => held[m] = NoThread
       /\ held' = IF m = NULL THEN held ELSE [held EXCEPT ![m] = Owner]
       /\ octx' = [octx EXCEPT !.locked = m]
  /\ opc' = IF opc = "rc_lock" THEN "rc_store" ELSE "ic_store"
  /\ UNCHANGED << content, handles, mutex, waitCondition, initializeResult,
                  renderResult, affinity, deleted, destroyed, queue, pc, call,
                  ret, offThread, nullCall, disposedOn, crashed, ncalls,
                  limit, active, produced >>

\* QWaitCondition::wakeAll on the caller w's condition: w leaves its wait if
\* it is waiting; otherwise the signal is lost.
WakeAll(w) ==
  IF w # NULL /\ pc[w] = "waiting" THEN [pc EXCEPT ![w] = "woken"] ELSE pc

\* initializeResult = result / renderResult = result, waitCondition->wakeAll()
\* and the end of the locker's scope, lines 88-90 and 143-145.  wakeAll
\* through a null waitCondition is undefined behaviour.
CompleteStore ==
  /\ Running /\ opc \in {"rc_store", "ic_store"}
  /\ \/ /\ renderResult' = IF opc = "rc_store"
                           THEN [renderResult EXCEPT ![octx.b] = octx.result]
                           ELSE renderResult
        /\ initializeResult' = IF opc = "ic_store"
                               THEN [initializeResult EXCEPT ![octx.b] = octx.result]
                               ELSE initializeResult
        /\ pc' = WakeAll(waitCondition[octx.b])
        /\ held' = IF octx.locked = NULL THEN held
                   ELSE [held EXCEPT ![octx.locked] = NoThread]
        /\ opc' = "loop"
        /\ octx' = NoCtx
        /\ ret' = IF octx.inplace
                  THEN [t |-> Owner, op |-> "render", b |-> octx.b,
                        val |-> octx.result, produced |-> Str(octx.result)]
                  ELSE ret
        /\ UNCHANGED << content, handles, mutex, waitCondition, affinity,
                        deleted, destroyed, queue, call, offThread, nullCall,
                        disposedOn, crashed, ncalls, limit, active, produced >>
     \/ /\ waitCondition[octx.b] = NULL
        /\ Crash({})

\* ------------------------------------------- public calls on the owner thread
\* initialize on the owner thread without the early return of lines 39-42:
\* the bridge is moved and initializeInvokable is posted.
OwnerInitializeMarshals(b, fileName) ==
  /\ CanCall(b) /\ ThreadIdle(Owner) /\ onUIThread(Owner)
  /\ fileName \in FileNames
  /\ ncalls' = ncalls + 1
  /\ affinity' = [affinity EXCEPT ![b] = Owner]
  /\ queue' = [MovedQueue(affinity[b], b) EXCEPT ![Owner] =
       Append(@, [op |-> "initializeInvokable", b |-> b, by |-> 1,
                  arg |-> [url |-> Resolve(fileName).url,
                           isPlain |-> Resolve(fileName).isPlain,
                           isTransparent |-> FALSE]])]
  /\ ret' = [t |-> Owner, op |-> "initialize", b |-> b,
             val |-> initializeResult[b], produced |-> "none"]
  /\ UNCHANGED << content, handles, mutex, waitCondition, initializeResult,
                  renderResult, deleted, destroyed, pc, call, held, opc, octx,
                  offThread, nullCall, disposedOn, crashed, limit, active,
                  produced >>

\* initialize on the owner thread, lines 39-42
OwnerInitialize(b, fileName) ==
  /\ CanCall(b) /\ ThreadIdle(Owner) /\ onUIThread(Owner)
  /\ fileName \in FileNames
  /\ ncalls' = ncalls + 1
  /\ ret' = [t |-> Owner, op |-> "initialize", b |-> b, val |-> FALSE,
             produced |-> "none"]
  /\ UNCHANGED << content, handles, mutex, waitCondition, initializeResult,
                  renderResult, affinity, deleted, destroyed, queue, pc, call,
                  held, opc, octx, offThread, nullCall, disposedOn, crashed,
                  limit, active, produced >>

\* render on the owner thread, lines 116-118 and 136
OwnerRender(b) ==
  /\ CanCall(b) /\ ThreadIdle(Owner) /\ onUIThread(Owner)
  /\ \/ /\ \E r \in BOOLEAN : RenderInvokable(b, Owner, TRUE, r)
        /\ ncalls' = ncalls + 1
        /\ UNCHANGED << content, handles, mutex, waitCondition,
                        initializeResult, renderResult, affinity, deleted,
                        destroyed, queue, pc, call, held, offThread,
                        disposedOn, crashed, limit, active >>
     \/ /\ content[b] = NULL
        /\ Crash({"render"})

\* reload on the owner thread, lines 150-152
OwnerReload(b) ==
  /\ CanCall(b) /\ ThreadIdle(Owner) /\ onUIThread(Owner)
  /\ \/ /\ ReloadInvokable(b)
        /\ ncalls' = ncalls + 1
        /\ ret' = [t |-> Owner, op |-> "reload", b |-> b, val |-> FALSE,
                   produced |-> "none"]
        /\ UNCHANGED << content, mutex, waitCondition, initializeResult,
                        renderResult, affinity, deleted, destroyed, queue, pc,
                        call, held, opc, octx, offThread, disposedOn, crashed,
                        limit, active, produced >>
     \/ /\ content[b] = NULL
        /\ Crash({"reload"})

\* ------------------------------------------------ calls made on any thread
\* No caller is still admitting a call on b (it has posted its operation).
AllPosted(b) ==
  \A u \in Callers :
    call[u].b = b => pc[u] \notin {"set_mutex", "set_cond", "move", "post"}

\* destroy that deletes the bridge on the calling thread (delete this in
\* place of deleteLater).
DestroyNow(t, b) ==
  /\ CanCall(b) /\ ThreadIdle(t) /\ AllPosted(b)
  /\ ncalls' = ncalls + 1
  /\ destroyed' = [destroyed EXCEPT ![b] = TRUE]
  /\ deleted' = [deleted EXCEPT ![b] = TRUE]
  /\ disposedOn' = [disposedOn EXCEPT ![b] = "calling thread"]
  /\ handles' = [handles EXCEPT ![b] =
       [i \in DOMAIN @ |->
          IF i = content[b] THEN [@[i] EXCEPT !.alive = FALSE, !.conn = "none",
                                              !.pre = 0, !.full = 0]
          ELSE [@[i] EXCEPT !.conn = "none"]]]
  /\ UNCHANGED << content, mutex, waitCondition, initializeResult,
                  renderResult, affinity, queue, pc, call, held, opc, octx,
                  ret, offThread, nullCall, crashed, limit, active, produced >>

\* destroy, lines 92-95: deleteLater posts a deferred delete to the thread
\* the object lives in.
Destroy(t, b) ==
  /\ CanCall(b) /\ ThreadIdle(t) /\ AllPosted(b)
  /\ ncalls' = ncalls + 1
  /\ destroyed' = [destroyed EXCEPT ![b] = TRUE]
  /\ queue' = Posted(queue, b, "deferredDelete", t, <<>>)
  /\ UNCHANGED << content, handles, mutex, waitCondition, initializeResult,
                  renderResult, affinity, deleted, pc, call, held, opc, octx,
                  ret, offThread, nullCall, disposedOn, crashed, limit,
                  active, produced >>

\* getImageTypeMap, lines 101-104, and setImage, lines 106-112: the Content
\* method is called on the calling thread.
ContentCall(t, b, method) ==
  /\ CanCall(b) /\ ThreadIdle(t)
  /\ \/ /\ ncalls' = ncalls + 1
        /\ offThread' = IF t = Owner THEN offThread ELSE offThread \cup {method}
        /\ nullCall' = ThroughNull(b, method)
        /\ UNCHANGED << content, handles, mutex, waitCondition,
                        initializeResult, renderResult, affinity, deleted,
                        destroyed, queue, pc, call, held, opc, octx, ret,
                        disposedOn, crashed, limit, active, produced >>
     \/ /\ content[b] = NULL
        /\ Crash({method})

GetImageTypeMap(t, b) == ContentCall(t, b, "getImageTypeMap")

SetImage(t, b) == ContentCall(t, b, "setImage")

\* ------------------------------------------------------- the specification
CallerStep(t) ==
  \/ \E b \in Bridges, f \in FileNames :
       StartInitialize(t, b, f, Transparent(f))
  \/ \E b \in Bridges : StartMarshaled(t, b, "render")
  \/ \E b \in Bridges : StartMarshaled(t, b, "reload")
  \/ SetMutex(t) \/ SetCond(t) \/ MoveToThread(t) \/ Post(t)
  \/ Wait(t) \/ Reacquire(t) \/ ClrMutex(t) \/ ClrCond(t) \/ Return(t)
  \/ UseAfterFree(t) \/ DestroyLockedMutex(t)

OwnerLoop ==
  \/ DispatchInitialize \/ DispatchRender \/ DispatchReload \/ DispatchDelete
  \/ CompleteLock \/ CompleteStore

HandleEvent ==
  \E b \in Bridges, i \in 1..MaxCalls + 1, kind \in {"pre", "full"}, res \in BOOLEAN :
    Fire(b, i, kind, res)

OwnerCall ==
  \/ \E b \in Bridges, f \in FileNames : OwnerInitialize(b, f)
  \/ \E b \in Bridges : OwnerRender(b)
  \/ \E b \in Bridges : OwnerReload(b)

AnyCall ==
  \E t \in Threads, b \in Bridges :
    Destroy(t, b) \/ GetImageTypeMap(t, b) \/ SetImage(t, b)

Next ==
  \/ \E t \in Callers : CallerStep(t)
  \/ OwnerLoop
  \/ HandleEvent
  \/ OwnerCall
  \/ AnyCall

Spec == Init /\ [][Next]_vars

\* The calls made on a bridge that is Ready.
ReadySpec == InitReady /\ [][Next]_vars

\* Caller 1, which constructed bridge 1, initializes it with each locator.
LocatorNext ==
  \/ \E f \in Locators : StartInitialize(1, 1, f, Transparent(f))
  \/ SetMutex(1) \/ SetCond(1) \/ MoveToThread(1) \/ Post(1) \/ Wait(1)
  \/ Reacquire(1) \/ ClrMutex(1) \/ ClrCond(1) \/ Return(1)
  \/ DispatchInitialize
  \/ HandleEvent
  \/ CompleteLock
  \/ CompleteStore

LocatorSpec == Init /\ [][LocatorNext]_vars

\* Each caller thread renders on the bridge of its own number.
TwoNext ==
  \/ \E t \in Callers :
       \/ StartMarshaled(t, t, "render")
       \/ SetMutex(t) \/ SetCond(t) \/ Post(t) \/ Wait(t)
       \/ Reacquire(t) \/ ClrMutex(t) \/ ClrCond(t) \/ Return(t)
  \/ DispatchRender
  \/ CompleteLock
  \/ CompleteStore

TwoSpec == InitTwo /\ [][TwoNext]_vars

\* ---------------------------------------------------------------- fairness
\* The steps of a call that a caller thread has begun.
CallerProgress(t) ==
  \/ SetMutex(t) \/ SetCond(t) \/ MoveToThread(t) \/ Post(t) \/ Wait(t)
  \/ Reacquire(t) \/ ClrMutex(t) \/ ClrCond(t) \/ Return(t)

\* The owner's event loop keeps running, every Content fires the events of
\* the loads it has started, and a caller thread that can go on does.
Fairness ==
  /\ WF_vars(OwnerLoop)
  /\ WF_vars(HandleEvent)
  /\ \A t \in Callers : WF_vars(CallerProgress(t))

FairSpec == Init /\ [][Next]_vars /\ Fairness

FairReadySpec == InitReady /\ [][Next]_vars /\ Fairness

FairTwoSpec == InitTwo /\ [][TwoNext]_vars /\ Fairness

\* ------------------------------------------------------------------ claims

\* Both caller threads are inside render on bridge 1.
BothRendering ==
  \A t \in Callers : call[t].op = "render" /\ call[t].b = 1 /\ pc[t] # "idle"

\* C1: when both caller threads are inside render on the same bridge and the
\* owner's loop keeps running, both callers eventually return from render
\* (unless undefined behaviour ends the process first).
C1_BothCallersReturn ==
  BothRendering ~> ((\A t \in Callers : pc[t] = "idle") \/ crashed)

\* Caller t has installed its mutex in the fields of bridge b and has not
\* yet resumed from its wait.
InFlight(t, b) ==
  /\ call[t].b = b
  /\ pc[t] \in {"set_cond", "move", "post", "wait", "waiting", "woken"}

\* C2: at most one marshaled call is in flight on a bridge: no two callers
\* have installed their mutex in the bridge's fields, or posted their
\* operation, without having resumed from their wait.
C2_AtMostOneInFlight ==
  \A b \in Bridges : Cardinality({t \in Callers : InFlight(t, b)}) <= 1

\* Caller t is inside initialize with a local file of unsupported suffix,
\* and the bridge lives on the owner thread, whose loop runs what is posted.
UnsupportedLocal(t) ==
  /\ call[t].op = "initialize"
  /\ IsLocalFile(call[t].arg.url)
  /\ SelectVariant(call[t].arg.url) = "none"
  /\ affinity[call[t].b] = Owner

\* C3: an initialize of a local file whose suffix is none of .html, .htm,
\* .qml, called on a caller thread, returns failure to its caller (unless
\* undefined behaviour ends the process first).
C3_UnsupportedInitializeReturnsFailure ==
  \A t \in Callers :
    UnsupportedLocal(t) ~>
      \/ pc[t] = "idle" /\ ret.t = t /\ ret.op = "initialize" /\ ~ret.val
      \/ crashed

\* C4: a render called on the owner thread returns what renderContent
\* produced for it.
C4_OwnerRenderReturnsOutcome ==
  (ret.t = Owner /\ ret.op = "render") => Str(ret.val) = ret.produced

\* A step that is an initialize called on the owner thread.
OwnerInitializeStep == \E b \in Bridges, f \in FileNames : OwnerInitialize(b, f)

\* C5: an initialize called on the owner thread returns false, and the step
\* leaves the bridge as it was: no call record installed, the bridge not
\* moved, nothing posted, no Content created.
C5_OwnerInitializeFailsAndChangesNothing ==
  /\ []((ret.t = Owner /\ ret.op = "initialize") => ~ret.val)
  /\ [][OwnerInitializeStep =>
          /\ ret'.t = Owner /\ ret'.op = "initialize"
          /\ UNCHANGED << mutex, waitCondition, affinity, queue, content,
                          handles, initializeResult, renderResult >>]_vars

\* C5 witness: initialize has returned on the owner thread of a bridge that
\* still lives on the thread that constructed it.
C5_Witness ==
  ret.t = Owner /\ ret.op = "initialize" /\ affinity[1] = 1 /\ ncalls = 1

\* The owner thread has executed the Content's reload for the reload that
\* caller t is inside, the only call made so far.
ReloadExecuted(t) ==
  /\ call[t].op = "reload" /\ produced[t] = "reloaded" /\ pc[t] # "idle"
  /\ ncalls = 1

\* C6: once the owner thread has executed the Content's reload for a reload
\* posted by a caller thread, that caller resumes and reload returns (unless
\* undefined behaviour ends the process first).
C6_ReloadCallerResumes ==
  \A t \in Callers : ReloadExecuted(t) ~> (pc[t] = "idle" \/ crashed)

\* C7: the caller of an initialize leaves its wait only in the completion of
\* the event its mode selects: contentPreLoadFinished for a plain-mode
\* initialize, contentLoadFinished otherwise.
C7_InitializeResumesOnlyOnItsEvent ==
  [][\A t \in Callers :
       (call[t].op = "initialize" /\ pc[t] = "waiting" /\ pc'[t] = "woken")
         => (opc = "ic_store"
             /\ octx.kind = ConnectedSignal(call[t].arg.isPlain))]_vars

\* C8: the bridge and its Content are disposed only by the owner's loop
\* processing the deferred delete, never in the step that calls destroy, and
\* no posted operation of a disposed bridge is left in a queue to execute
\* against it.
C8_DeferredTeardown ==
  /\ [](\A th \in Threads : \A i \in DOMAIN queue[th] :
          ~deleted[queue[th][i].b])
  /\ [][\A b \in Bridges :
          (deleted'[b] /\ ~deleted[b])
            => /\ opc = "loop" /\ queue[Owner] # <<>>
               /\ Head(queue[Owner]).op = "deferredDelete"
               /\ Head(queue[Owner]).b = b
               /\ disposedOn'[b] = "owner loop"]_vars

\* C8 witness: destroy has been called while a render posted before it is
\* still queued ahead of the deferred delete.
C8_Witness ==
  /\ Len(queue[Owner]) = 2
  /\ queue[Owner][1].op = "renderInvokable"
  /\ queue[Owner][2].op = "deferredDelete"

\* C9: setImage is the only Content method invoked on a thread other than
\* the owner thread.
C9_OnlySetImageOffOwnerThread == offThread \subseteq {"setImage"}

\* C10: a render on a bridge that holds no Content invokes no Content method
\* through the null pointer, and reports failure.
C10_RenderWithoutContentFailsFast ==
  /\ "render" \notin nullCall
  /\ (ret.op = "render" /\ content[ret.b] = NULL) => ~ret.val

\* C11: the calls on a bridge return in the order their operations were
\* posted: a call returns only when every call posted before it has
\* returned.
C11_ReturnInAdmissionOrder ==
  [][\A t \in Callers :
       (pc[t] = "return" /\ pc'[t] = "idle") => call[t].after = {}]_vars

\* The path ends in the suffix, letter case ignored.
HasSuffix(path, suffix) ==
  /\ Len(path) >= Len(suffix)
  /\ [i \in 1..Len(suffix) |->
        Lower(SubSeq(path, Len(path) - Len(suffix) + 1, Len(path))[i])] = suffix

\* The step appends exactly one Content of variant v to bridge b and makes it
\* the bridge's content.
CreatesOne(b, v) ==
  /\ Len(handles'[b]) = Len(handles[b]) + 1
  /\ SubSeq(handles'[b], 1, Len(handles[b])) = handles[b]
  /\ handles'[b][Len(handles'[b])].variant = v
  /\ content'[b] = Len(handles'[b])

\* C12: when the owner runs a posted initialize, a path ending in .html or
\* .htm (any letter case), or a locator that is not a local file, creates
\* exactly one WebContent; a local file ending in .qml (any letter case)
\* creates exactly one QmlContent.
C12_VariantSelection ==
  [][\A b \in Bridges :
       (/\ opc = "loop" /\ queue[Owner] # <<>>
        /\ Head(queue[Owner]).op = "initializeInvokable"
        /\ Head(queue[Owner]).b = b
        /\ queue'[Owner] = Tail(queue[Owner]))
       => LET u == Head(queue[Owner]).arg.url IN
            /\ (\/ HasSuffix(u.path, <<".", "h", "t", "m", "l">>)
                \/ HasSuffix(u.path, <<".", "h", "t", "m">>)
                \/ Scheme(u) # "file") => CreatesOne(b, "web")
            /\ (Scheme(u) = "file" /\ HasSuffix(u.path, <<".", "q", "m", "l">>))
                 => CreatesOne(b, "qml")]_vars

\* C12 witness: the first initialize, of a locator that is not a local file
\* and ends in .qml, has created a WebContent.
C12_Witness ==
  /\ ncalls = 1 /\ call[1].op = "initialize"
  /\ Scheme(call[1].arg.url) = "http"
  /\ HasSuffix(call[1].arg.url.path, <<".", "q", "m", "l">>)
  /\ Len(handles[1]) = 1 /\ content[1] = 1
  /\ handles[1][1].variant = "web"

\* C13: with one caller thread rendering on each of two bridges, every
\* caller returns, the value it returns is what renderContent of its own
\* bridge's Content produced for it, and a completion stores into the
\* fields of its own bridge only.
C13_TwoBridgesIndependent ==
  /\ \A t \in Callers : (pc[t] # "idle") ~> (pc[t] = "idle")
  /\ []((ret.t \in Callers /\ ret.op = "render")
          => (ret.b = ret.t /\ Str(ret.val) = ret.produced))
  /\ [][\A b \in Bridges :
          renderResult'[b] # renderResult[b] => octx.b = b]_vars

\* C13 witness: the owner completes the render of bridge 1 while both
\* callers wait and the render of bridge 2 is still queued.
C13_Witness ==
  /\ opc = "rc_store" /\ octx.b = 1
  /\ pc[1] = "waiting" /\ pc[2] = "waiting"
  /\ Len(queue[Owner]) = 1 /\ Head(queue[Owner]).b = 2

\* C14: with a single caller thread on a bridge, the wakeAll of
\* renderComplete always finds the caller waiting and wakes it, and a caller
\* that has posted its render returns.
C14_RenderWakeNotLost ==
  /\ [][(opc = "rc_store" /\ opc' = "loop")
          => /\ waitCondition[octx.b] \in Callers
             /\ pc[waitCondition[octx.b]] = "waiting"
             /\ pc'[waitCondition[octx.b]] = "woken"]_vars
  /\ \A t \in Callers :
       (call[t].op = "render" /\ pc[t] \in {"wait", "waiting"})
         ~> (pc[t] = "idle" /\ ret.t = t)

\* C14 witness: the owner has run the posted render before the caller
\* waits, and stands at the QMutexLocker of renderComplete while the caller
\* still holds its mutex.
C14_Witness ==
  \E t \in Callers :
    /\ opc = "rc_lock" /\ octx.b = t /\ mutex[t] = t
    /\ call[t].op = "render" /\ pc[t] = "wait" /\ held[t] = t

\* C15: a marshaled initialize or render returns to its caller the boolean
\* produced on the owner thread for that call: the one carried by the
\* completion event of the initialize's Content, or the one renderContent
\* returned for the posted render.
C15_ReturnsOwnResult ==
  [][\A t \in Callers :
       (/\ call[t].op \in {"initialize", "render"}
        /\ pc[t] = "return" /\ pc'[t] = "idle")
       => (ret'.t = t /\ Str(ret'.val) = produced[t])]_vars

\* Bridge b is Ready: the completion event its Content is connected by has
\* fired for every load started, and the last one reported success.
IsReady(b) ==
  /\ content[b] # NULL
  /\ initializeResult[b]
  /\ LET h == handles[b][content[b]] IN
       IF h.conn = "pre" THEN h.pre = 0 ELSE h.full = 0

\* The step runs renderInvokable or reloadInvokable of bridge b.
ExecutesOn(b) ==
  \/ (DispatchRender \/ DispatchReload) /\ Head(queue[Owner]).b = b
  \/ OwnerRender(b)
  \/ OwnerReload(b)

\* C16: renderContent and reload of a bridge's Content are executed only
\* while the bridge is Ready (stated for the steps taken while the bridge
\* holds a Content and no caller thread is inside a call).
C16_ExecuteOnlyWhenReady ==
  [][\A b \in Bridges :
       (/\ content[b] # NULL
        /\ \A t \in Callers : pc[t] = "idle"
        /\ ExecutesOn(b))
       => IsReady(b)]_vars

\* C17: when the completion event of an initialize carried failure and the
\* initialize returns false, the bridge holds no Content.
C17_FailedLoadTearsDown ==
  [][\A t \in Callers :
       (/\ call[t].op = "initialize" /\ produced[t] = "false"
        /\ pc[t] = "return" /\ pc'[t] = "idle"
        /\ ret'.t = t /\ ~ret'.val)
       => content'[call[t].b] = NULL]_vars

\* The owner thread stands at the QMutexLocker of initializeComplete or
\* renderComplete.
OwnerAtLocker == opc \in {"rc_lock", "ic_lock"}

C19_InPlaceRenderWakesNobody ==
  [][(octx.inplace /\ opc = "rc_store" /\ opc' = "loop") => pc' = pc]_vars

\* C20: whenever the connected load-completion event has reached
\* initializeComplete, the bridge's mutex and waitCondition fields are both
\* non-null.
C20_InitializeCompleteHasCallRecord ==
  opc \in {"ic_lock", "ic_store"}
    => (mutex[octx.b] # NULL /\ waitCondition[octx.b] # NULL)

====
